---- MODULE Spec2Model ----
(***************************************************************************)
(* Verification development for the fornjot approximation / triangulation  *)
(* pipeline.                                                               *)
(*                                                                         *)
(*   * Path approximation (fj-core algorithms/approx/path.rs):             *)
(*     PathApproxParams::for_circle, PathApproxParams::points and the two  *)
(*     Approx implementations for SurfacePath / GlobalPath.                *)
(*   * Face triangulation (fj-core algorithms/triangulate/mod.rs).         *)
(*                                                                         *)
(* Scalars.  fj_math::Scalar wraps a binary floating-point number.  The    *)
(* arithmetic of `points` (division by the increment, floor, ceil, the     *)
(* product increment * i) is modelled as IEEE-style binary floating point  *)
(* with round-to-nearest-even, a significand of MantBits bits (f64 has     *)
(* 53) and a smallest quantum of 2^-FracBits.  A Scalar is represented by  *)
(* the integer  value * 2^FracBits.                                        *)
(*                                                                         *)
(* for_circle evaluates PI / acos(1 - tolerance / radius); acos is         *)
(* tabulated in units of 10^-6 and tolerance and radius are given in       *)
(* units of 10^-3.  The outcome of max(.., 3).ceil() is an integer, which  *)
(* is what connects the two representations.                               *)
(***************************************************************************)
EXTENDS Integers, Sequences, FiniteSets, TLC

VARIABLES
    pc,         \* "start" | "params" | "iter" | "done" | "panicked"
    call,       \* which entry point is running: "none" | "points" | "surface" | "global"
    path,       \* variant of the path handed to Approx: "Circle" | "Line" | "none"
    radius,     \* circle.a().magnitude(), in 10^-3
    tolerance,  \* Tolerance::inner(), in 10^-3
    increment,  \* PathApproxParams.increment (Scalar)
    boundary,   \* BoundaryOnCurve.inner: <<t0, t1>> (Scalars)
    iter,       \* captured state of the iterator returned by points()
    out,        \* the points the iterator has produced so far
    face,       \* the FaceApprox handed to the last triangulate_into_mesh
    triangles,  \* what delaunay::triangulate returned in that call
    mesh,       \* the Mesh<Point<3>> the triangles are pushed into
    base,       \* number of triangles the mesh held when that call began
    pending,    \* the faces of the shape that are still to be triangulated
    fjmesh,     \* the fj::Mesh
    fjpc,       \* "ready" | "panicked": whether a call of Mesh::triangle panicked
    fjcall,     \* the three points handed to the last Mesh::triangle
    fjprev,     \* the fj::Mesh as that call found it
    tstore,     \* the object store, the TransformCache and the transforms computed
    ttransform, \* the Transform of the running invocation
    tpending,   \* the half-edges still to be transformed
    tins,       \* the half-edges transformed so far
    tres,       \* the half-edges returned for them, in the same order
    tge,        \* what the last GlobalEdge::transform_with_cache returned, and for which transform
    mcall,      \* the last merge_with call: what it was called on, self and other
    mout,       \* what that call returned, or that it panicked
    sobjects,   \* Services: the objects the objects service has stored
    serrors,    \* Services: validation.errors, pairs of object id and error
    spc,        \* Services: "alive", or "dropped" by drop_and_validate
    sresult,    \* what drop_and_validate returned
    slast,      \* the last call on Services, and the errors it found recorded
    wcall,      \* the last sweep of a sketch: the sketch, the path and the cache given
    wout,       \* the solid it returned, the cache it left and the objects it inserted
    hcall,      \* the last sweep_shape call: the original shape and the path
    hfaces      \* the faces of the shape it returned

pathVars == <<pc, call, path, radius, tolerance, increment, boundary, iter, out>>

triVars == <<face, triangles, mesh, base, pending>>

fjVars == <<fjmesh, fjpc, fjcall, fjprev>>

vars == <<pc, call, path, radius, tolerance, increment, boundary, iter, out,
          face, triangles, mesh, base, pending,
          fjmesh, fjpc, fjcall, fjprev,
          tstore, ttransform, tpending, tins, tres, tge,
          mcall, mout,
          sobjects, serrors, spc, sresult, slast,
          wcall, wout,
          hcall, hfaces>>

tfVars == <<tstore, ttransform, tpending, tins, tres, tge>>

\* what the operations of one part leave alone
mergeVars == <<mcall, mout>>

servicesVars == <<sobjects, serrors, spc, sresult, slast>>

sweepVars == <<wcall, wout>>

shapeVars == <<hcall, hfaces>>

notPathVars ==
    <<triVars, fjVars, tfVars, mergeVars, servicesVars, sweepVars, shapeVars>>

notTriVars ==
    <<pathVars, fjVars, tfVars, mergeVars, servicesVars, sweepVars, shapeVars>>

notFjVars ==
    <<pathVars, triVars, tfVars, mergeVars, servicesVars, sweepVars, shapeVars>>

notTfVars ==
    <<pathVars, triVars, fjVars, mergeVars, servicesVars, sweepVars, shapeVars>>

notMergeVars ==
    <<pathVars, triVars, fjVars, tfVars, servicesVars, sweepVars, shapeVars>>

notServicesVars ==
    <<pathVars, triVars, fjVars, tfVars, mergeVars, sweepVars, shapeVars>>

notSweepVars ==
    <<pathVars, triVars, fjVars, tfVars, mergeVars, servicesVars, shapeVars>>

notShapeVars ==
    <<pathVars, triVars, fjVars, tfVars, mergeVars, servicesVars, sweepVars>>

(***************************************************************************)
(* Bounds of the model                                                     *)
(***************************************************************************)
\* significand bits of the modelled binary floating point format
MantBits == 6
\* boundary endpoints are drawn from the lattice points increment * k, |k| <= MaxK
MaxK == 5

(***************************************************************************)
(* Scalar arithmetic                                                       *)
(***************************************************************************)
FracBits == MantBits + 2

RECURSIVE Pow2(_)
Pow2(n) == IF n <= 0 THEN 1 ELSE 2 * Pow2(n - 1)

One == Pow2(FracBits)

Abs(x) == IF x < 0 THEN -x ELSE x

Max(x, y) == IF x < y THEN y ELSE x

RECURSIVE BitLen(_)
BitLen(n) == IF n <= 0 THEN 0 ELSE 1 + BitLen(n \div 2)

\* The Scalar nearest to the exact quotient N / D (already in units of
\* 2^-FracBits), D > 0, ties to the even significand.
RoundRatio(N, D) ==
    LET A == Abs(N)
        Q == Pow2(Max(0, BitLen(A \div D) - MantBits))
        m == A \div (D * Q)
        r == A - m * D * Q
        up == 2 * r > D * Q \/ (2 * r = D * Q /\ m % 2 = 1)
        mag == (IF up THEN m + 1 ELSE m) * Q
    IN IF N < 0 THEN -mag ELSE mag

Add(x, y) == RoundRatio(x + y, 1)
Sub(x, y) == RoundRatio(x - y, 1)
Mul(x, y) == RoundRatio(x * y, One)
Div(x, y) == IF y < 0 THEN RoundRatio(-(x * One), -y) ELSE RoundRatio(x * One, y)
Floor(x) == (x \div One) * One
Ceil(x) == -(((-x) \div One) * One)

\* Scalar of an integer
FromInt(n) == RoundRatio(n * One, 1)

Sign(x) == IF x < 0 THEN "Negative" ELSE IF x = 0 THEN "Zero" ELSE "Positive"

ToScalar(sign) ==
    CASE sign = "Negative" -> -One
      [] sign = "Zero" -> 0
      [] sign = "Positive" -> One

\* Scalar::TAU, 2 * pi = 710 / 113 to 7 digits
TAU == RoundRatio(710 * One, 113)

Reverse(s) == [j \in 1..Len(s) |-> s[Len(s) + 1 - j]]

(***************************************************************************)
(* PathApproxParams::for_circle                                            *)
(***************************************************************************)
\* Scalar::PI in units of 10^-6
PiMicro == 3141593
\* the lower limit handed to Scalar::max
MinVertices == 3

\* Scalar::ONE - tolerance / radius, in units of 10^-3
OneMinusRatio(r, tol) == 1000 - (tol * 1000) \div r

\* f64::acos in units of 10^-6, tabulated for the arguments the model uses;
\* outside [-1, 1] the result is NaN.
IsNaNAcos(c) == c < -1000 \/ c > 1000

AcosMicro(c) ==
    CASE c = 995 -> 100042
      [] c = 990 -> 141539
      [] c = 950 -> 317560
      [] c = 900 -> 451027
      [] c = 750 -> 722734
      [] c = 625 -> 895665
      [] c = 500 -> 1047198
      [] c = 0 -> 1570796
      [] c = -250 -> 1823477
      [] c = -500 -> 2094395
      [] c = -1000 -> 3141593

AcosArgs == {995, 990, 950, 900, 750, 625, 500, 0, -250, -500, -1000}

\* Scalar::max(PI / acos, 3.).ceil() for a non-NaN acos: the quotient
\* PiMicro / acos is compared and rounded up as an exact fraction.
NumVerticesNoCeil(acos) ==
    IF PiMicro < MinVertices * acos THEN MinVertices ELSE PiMicro \div acos

NumVertices(acos) ==
    IF PiMicro < MinVertices * acos THEN MinVertices ELSE -((-PiMicro) \div acos)

\* A Scalar cannot hold NaN: constructing one from a NaN f64 stops the program.
ForCirclePanics(r, tol) == IsNaNAcos(OneMinusRatio(r, tol))

\* increment = Scalar::TAU / num_vertices_to_approx_full_circle
ForCircle(r, tol) == Div(TAU, FromInt(NumVertices(AcosMicro(OneMinusRatio(r, tol)))))

(***************************************************************************)
(* PathApproxParams::points                                                *)
(***************************************************************************)
\* [a, b] = boundary.inner.map(|point| point.t / self.increment())
LatticeUnits(inc, b) == <<Div(b[1], inc), Div(b[2], inc)>>

Direction(a, b) == Sign(Sub(b, a))

MinMax(a, b) == IF a < b THEN <<a, b>> ELSE <<b, a>>

ClampMin(min) == Add(Floor(min), One)

ClampMax(max) == Sub(Ceil(max), One)

StartEndAscending(direction, min, max) == <<min, max>>

StartEnd(direction, min, max) ==
    IF direction = "Negative" THEN <<max, min>> ELSE <<min, max>>

\* the state captured by the closure handed to iter::from_fn
NewIter(inc, b) ==
    LET ab == LatticeUnits(inc, b)
        direction == Direction(ab[1], ab[2])
        mm == MinMax(ab[1], ab[2])
        se == StartEnd(direction, ClampMin(mm[1]), ClampMax(mm[2]))
    IN [direction |-> direction, end |-> se[2], i |-> se[1]]

IsFinishedEarly(it) ==
    IF it.direction = "Negative" THEN it.i <= it.end ELSE it.i >= it.end

IsFinished(it) ==
    IF it.direction = "Negative" THEN it.i < it.end ELSE it.i > it.end

EmitPointShifted(inc, i) == Mul(inc, i) + 1

EmitPoint(inc, i) == Mul(inc, i)

Advance(it) == [it EXCEPT !.i = Add(it.i, ToScalar(it.direction))]

\* every point the iterator yields from state `it` on, as collect() gathers them
RECURSIVE Drain(_, _)
Drain(inc, it) ==
    IF IsFinished(it) THEN <<>>
    ELSE <<EmitPoint(inc, it.i)>> \o Drain(inc, Advance(it))

PointsOf(inc, b) == Drain(inc, NewIter(inc, b))

(***************************************************************************)
(* Inputs                                                                  *)
(***************************************************************************)
RadiusSet == {1000, 2000}
ToleranceSet == {10, 100, 375, 500, 1000, 2000, 2500, 5000}

\* the (radius, tolerance) pairs whose ratio is exact in 10^-3 and tabulated
CircleInputs ==
    {rt \in RadiusSet \X ToleranceSet :
        /\ (rt[2] * 1000) % rt[1] = 0
        /\ \/ IsNaNAcos(OneMinusRatio(rt[1], rt[2]))
           \/ OneMinusRatio(rt[1], rt[2]) \in AcosArgs}

\* endpoints off the lattice, as the repository's tests use them
FreeEndpoints ==
    {0, FromInt(1), FromInt(2), TAU, Sub(TAU, FromInt(1)), Sub(TAU, FromInt(2))}

\* endpoints that are lattice points, as the code itself produces them
LatticeEndpoints(inc) == {EmitPoint(inc, FromInt(k)) : k \in (-MaxK)..MaxK}

Endpoints(inc) == FreeEndpoints \cup LatticeEndpoints(inc)

Boundaries(inc) == Endpoints(inc) \X Endpoints(inc)

NoIter == [direction |-> "Zero", end |-> 0, i |-> 0]

(***************************************************************************)
(* Actions of the path approximation                                       *)
(***************************************************************************)
PathInit ==
    /\ pc = "start"
    /\ call = "none"
    /\ path = "none"
    /\ radius = 0
    /\ tolerance = 0
    /\ increment = 0
    /\ boundary = <<0, 0>>
    /\ iter = NoIter
    /\ out = <<>>

\* let params = PathApproxParams::for_circle(&circle, tolerance)
DoForCircle ==
    /\ pc = "start"
    /\ \E rt \in CircleInputs :
        /\ radius' = rt[1]
        /\ tolerance' = rt[2]
        /\ IF ForCirclePanics(rt[1], rt[2])
             THEN pc' = "panicked" /\ increment' = 0
             ELSE pc' = "params" /\ increment' = ForCircle(rt[1], rt[2])
    /\ call' = "points"
    /\ UNCHANGED <<path, boundary, iter, out>>
    /\ UNCHANGED notPathVars

\* params.points(boundary): builds the iterator, produces nothing yet
DoPoints ==
    /\ pc = "params"
    /\ \E b \in Boundaries(increment) :
        /\ boundary' = b
        /\ iter' = NewIter(increment, b)
    /\ pc' = "iter"
    /\ out' = <<>>
    /\ UNCHANGED <<call, path, radius, tolerance, increment>>
    /\ UNCHANGED notPathVars

\* one call of the closure of iter::from_fn
IterNext ==
    /\ pc = "iter"
    /\ IF IsFinished(iter)
         THEN pc' = "done" /\ UNCHANGED <<iter, out>>
         ELSE /\ out' = Append(out, EmitPoint(increment, iter.i))
              /\ iter' = Advance(iter)
              /\ pc' = "iter"
    /\ UNCHANGED <<call, path, radius, tolerance, increment, boundary>>
    /\ UNCHANGED notPathVars

\* approx_circle: for_circle, points, and the loop over the iterator
ApproxCircle(rt, b) ==
    IF ForCirclePanics(rt[1], rt[2])
      THEN /\ pc' = "panicked"
           /\ increment' = 0
           /\ out' = <<>>
      ELSE /\ pc' = "done"
           /\ increment' = ForCircle(rt[1], rt[2])
           /\ out' = PointsOf(ForCircle(rt[1], rt[2]), b)

ApproxLineAsCircle(rt, b) == ApproxCircle(rt, b)

\* SurfacePath::Line(_) => vec![]  /  GlobalPath::Line(_) => vec![]
ApproxLine(rt, b) ==
    /\ pc' = "done"
    /\ increment' = 0
    /\ out' = <<>>

ApproxPath(kind, rt, b) ==
    /\ path' = kind
    /\ radius' = rt[1]
    /\ tolerance' = rt[2]
    /\ boundary' = b
    /\ iter' = NoIter
    /\ IF kind = "Circle" THEN ApproxCircle(rt, b) ELSE ApproxLine(rt, b)

\* the boundaries handed to Approx: any pair of endpoints of the circle's lattice
ApproxBoundaries(rt) ==
    IF ForCirclePanics(rt[1], rt[2])
      THEN FreeEndpoints \X FreeEndpoints
      ELSE Boundaries(ForCircle(rt[1], rt[2]))

\* impl Approx for (&SurfacePath, BoundaryOnCurve)
ApproxSurfacePath ==
    /\ pc = "start"
    /\ call' = "surface"
    /\ \E kind \in {"Circle", "Line"}, rt \in CircleInputs :
        \E b \in ApproxBoundaries(rt) : ApproxPath(kind, rt, b)
    /\ UNCHANGED notPathVars

\* impl Approx for (GlobalPath, BoundaryOnCurve)
ApproxGlobalPath ==
    /\ pc = "start"
    /\ call' = "global"
    /\ \E kind \in {"Circle", "Line"}, rt \in CircleInputs :
        \E b \in ApproxBoundaries(rt) : ApproxPath(kind, rt, b)
    /\ UNCHANGED notPathVars

(***************************************************************************)
(* PathApproxParams::points on boundaries far from the origin              *)
(***************************************************************************)
\* the iterator is followed for at most this many points
MaxOut == 40

\* lattice indices at and beyond the last one whose successor is a Scalar
FarIndices ==
    {Pow2(MantBits), Pow2(MantBits) + 2, Pow2(MantBits) + 4, 2 * Pow2(MantBits)}

FarEndpoints(inc) == {EmitPoint(inc, FromInt(k)) : k \in FarIndices}

FarBoundaries(inc) == FarEndpoints(inc) \X FarEndpoints(inc)

\* params.points(boundary) for a boundary far from the origin
DoPointsFar ==
    /\ pc = "params"
    /\ \E b \in FarBoundaries(increment) :
        /\ boundary' = b
        /\ iter' = NewIter(increment, b)
    /\ pc' = "iter"
    /\ out' = <<>>
    /\ UNCHANGED <<call, path, radius, tolerance, increment>>
    /\ UNCHANGED notPathVars

\* one call of the closure, while the points collected are few enough
IterNextBounded ==
    /\ Len(out) < MaxOut
    /\ IterNext

PointsNext ==
    \/ DoForCircle
    \/ DoPoints
    \/ DoPointsFar
    \/ IterNextBounded

PathNext ==
    \/ DoForCircle
    \/ DoPoints
    \/ IterNext
    \/ ApproxSurfacePath
    \/ ApproxGlobalPath

(***************************************************************************)
(* Planar geometry on the integer coordinates of the model                 *)
(***************************************************************************)
Sgn(x) == IF x > 0 THEN 1 ELSE IF x < 0 THEN -1 ELSE 0

\* twice the signed area of the triangle p, q, r: positive when counter-clockwise
Orient(p, q, r) ==
    (q[1] - p[1]) * (r[2] - p[2]) - (q[2] - p[2]) * (r[1] - p[1])

\* positive when d is strictly inside the circle through a, b, c; zero on it
InCircle(a, b, c, d) ==
    LET ax == a[1] - d[1]
        ay == a[2] - d[2]
        bx == b[1] - d[1]
        by == b[2] - d[2]
        cx == c[1] - d[1]
        cy == c[2] - d[2]
        a2 == ax * ax + ay * ay
        b2 == bx * bx + by * by
        c2 == cx * cx + cy * cy
        det == ax * (by * c2 - b2 * cy) - ay * (bx * c2 - b2 * cx)
                 + a2 * (bx * cy - by * cx)
    IN det * Sgn(Orient(a, b, c))

\* the open segments p q and r s cross in one point
ProperCross(p, q, r, s) ==
    /\ Sgn(Orient(p, q, r)) * Sgn(Orient(p, q, s)) < 0
    /\ Sgn(Orient(r, s, p)) * Sgn(Orient(r, s, q)) < 0

Between(x, y, z) == (x <= z /\ z <= y) \/ (y <= z /\ z <= x)

\* x lies on the closed segment p q
OnSegment(p, q, x) ==
    /\ Orient(p, q, x) = 0
    /\ Between(p[1], q[1], x[1])
    /\ Between(p[2], q[2], x[2])

\* the closed segments p q and r s have a point in common
Touch(p, q, r, s) ==
    \/ ProperCross(p, q, r, s)
    \/ OnSegment(p, q, r)
    \/ OnSegment(p, q, s)
    \/ OnSegment(r, s, p)
    \/ OnSegment(r, s, q)

InClosedTriangle(a, b, c, x) ==
    LET o == Sgn(Orient(a, b, c))
    IN /\ Sgn(Orient(a, b, x)) * o >= 0
       /\ Sgn(Orient(b, c, x)) * o >= 0
       /\ Sgn(Orient(c, a, x)) * o >= 0

\* lexicographic order of points
PointLess(p, q) == p[1] < q[1] \/ (p[1] = q[1] /\ p[2] < q[2])

(***************************************************************************)
(* Faces and their approximation                                           *)
(***************************************************************************)
\* at most this many faces are triangulated into one mesh
MaxFaces == 2

\* surface.geometry().point_from_surface_coords(point) for the two planes
PointFromSurfaceCoords(surface, p) ==
    IF surface = "xy" THEN <<p[1], p[2], 0>> ELSE <<p[1], 0, p[2]>>

ApproxPoint(surface, p) ==
    [local_form |-> p, global_form |-> PointFromSurfaceCoords(surface, p)]

\* CycleApprox::points() of Cycle::polygon(points) on the surface
CycleApprox(surface, points) ==
    [i \in 1..Len(points) |-> ApproxPoint(surface, points[i])]

Shapes == {"simple", "hole", "concave"}

\* the exterior polygons of tests::simple, simple_hole and sharp_concave_shape
Exterior(shape) ==
    CASE shape = "simple" -> <<<<0, 0>>, <<2, 0>>, <<2, 2>>, <<0, 1>>>>
      [] shape = "hole" -> <<<<0, 0>>, <<4, 0>>, <<4, 4>>, <<0, 4>>>>
      [] shape = "concave" -> <<<<1, 0>>, <<2, 8>>, <<2, 9>>, <<1, 1>>, <<0, 9>>>>

Interiors(shape) ==
    IF shape = "hole" THEN << <<<<1, 1>>, <<1, 2>>, <<3, 3>>, <<3, 1>>>> >> ELSE <<>>

\* Option<Color>: <<>> is None, <<c>> is Some(c)
FaceColors == {<<>>, << <<0, 0, 255, 255>> >>}

\* the surfaces with the handedness of their coordinates
Surfaces == {<<"xy", "RightHanded">>, <<"xz", "LeftHanded">>}

FaceApprox(shape, surface, color) ==
    [exterior |-> CycleApprox(surface[1], Exterior(shape)),
     interiors |-> [n \in 1..Len(Interiors(shape)) |->
                      CycleApprox(surface[1], Interiors(shape)[n])],
     color |-> color,
     coord_handedness |-> surface[2]]

Faces ==
    {FaceApprox(shape, surface, color) :
        shape \in Shapes, surface \in Surfaces, color \in FaceColors}

NoFace ==
    [exterior |-> <<>>, interiors |-> <<>>, color |-> <<>>,
     coord_handedness |-> "RightHanded"]

\* the sequences of at most n faces
RECURSIVE FaceSeqs(_)
FaceSeqs(n) ==
    IF n <= 0 THEN {<<>>}
    ELSE FaceSeqs(n - 1) \cup
         {Append(s, f) : s \in {x \in FaceSeqs(n - 1) : Len(x) = n - 1}, f \in Faces}

(***************************************************************************)
(* delaunay::triangulate                                                   *)
(*                                                                         *)
(* The triangulation is the Delaunay triangulation of the points of all    *)
(* cycles, constrained to contain the edges of the cycles: a triangle      *)
(* belongs to it when no edge of a cycle crosses it and its circumcircle   *)
(* holds no point that is visible from its interior.  Points on the        *)
(* circumcircle leave a choice between the triangulations of the           *)
(* cocircular points; every such choice is a possible result.              *)
(***************************************************************************)
CycleEdges(cycle) ==
    {<<cycle[i].local_form, cycle[(i % Len(cycle)) + 1].local_form>> :
        i \in 1..Len(cycle)}

Constraints(cycles) == UNION {CycleEdges(cycles[n]) : n \in 1..Len(cycles)}

ApproxPoints(cycles) ==
    UNION {{cycles[n][i] : i \in 1..Len(cycles[n])} : n \in 1..Len(cycles)}

LocalPoints(cycles) == {ap.local_form : ap \in ApproxPoints(cycles)}

Triples(P) == {t \in SUBSET P : Cardinality(t) = 3}

\* the corners of a triangle given as a set, smallest point first
Corners(t) ==
    LET a == CHOOSE x \in t : \A y \in t : x = y \/ PointLess(x, y)
        b == CHOOSE x \in t \ {a} : \A y \in t \ {a} : x = y \/ PointLess(x, y)
        c == CHOOSE x \in t \ {a, b} : TRUE
    IN <<a, b, c>>

\* each edge of the triangle with the corner opposite to it
TriEdges(t) ==
    {e \in t \X t \X t : e[1] # e[2] /\ e[1] # e[3] /\ e[2] # e[3]}

\* a triangle of the point set that no point and no constraint cuts
Respects(t, P, cons) ==
    LET k == Corners(t)
    IN /\ Orient(k[1], k[2], k[3]) # 0
       /\ \A x \in P \ t : ~InClosedTriangle(k[1], k[2], k[3], x)
       /\ \A e \in TriEdges(t) : \A s \in cons :
             ~ProperCross(e[1], e[2], s[1], s[2])

IsConstraint(u, v, cons) == <<u, v>> \in cons \/ <<v, u>> \in cons

\* the constraint s hides p from every point of the edge u v
Separates(s, u, v, p) ==
    /\ ~OnSegment(s[1], s[2], p)
    /\ Touch(s[1], s[2], u, p)
    /\ Touch(s[1], s[2], v, p)
    /\ ~(Orient(s[1], s[2], u) = 0 /\ Orient(s[1], s[2], v) = 0)

\* p can be seen from the interior of t through one of its edges
Visible(t, p, cons) ==
    \E e \in TriEdges(t) :
        /\ Sgn(Orient(e[1], e[2], p)) * Sgn(Orient(e[1], e[2], e[3])) < 0
        /\ ~IsConstraint(e[1], e[2], cons)
        /\ \A s \in cons : ~Separates(s, e[1], e[2], p)

InsideCircumcircle(t, P, cons) ==
    LET k == Corners(t)
    IN {p \in P \ t : InCircle(k[1], k[2], k[3], p) > 0 /\ Visible(t, p, cons)}

OnCircumcircle(t, P, cons) ==
    LET k == Corners(t)
    IN {p \in P \ t : InCircle(k[1], k[2], k[3], p) = 0 /\ Visible(t, p, cons)}

DelaunayCandidates(P, cons) ==
    {t \in Triples(P) : Respects(t, P, cons) /\ InsideCircumcircle(t, P, cons) = {}}

Overlap(t1, t2) ==
    \E e1 \in TriEdges(t1) : \E e2 \in TriEdges(t2) :
        ProperCross(e1[1], e1[2], e2[1], e2[2])

\* the triangulations: the triangles that are forced, with a largest set of
\* the others that do not overlap
DelaunayTriangulations(P, cons) ==
    LET cand == UNION {{t} : t \in DelaunayCandidates(P, cons)}
        forced == {t \in cand : OnCircumcircle(t, P, cons) = {}}
        open == cand \ forced
    IN {forced \cup S :
          S \in {X \in SUBSET open :
                   /\ \A x \in X : \A y \in X : ~Overlap(x, y)
                   /\ \A x \in open \ X : \E y \in X : Overlap(x, y)}}

\* the corners in the winding the handedness asks for: counter-clockwise
\* for right-handed coordinates, clockwise for left-handed ones
Wind(t, handedness) ==
    LET k == Corners(t)
        ccw == Orient(k[1], k[2], k[3]) > 0
    IN IF ccw = (handedness = "RightHanded") THEN k ELSE <<k[1], k[3], k[2]>>

TriangleLess(s, t) ==
    LET j == Corners(s)
        k == Corners(t)
    IN \/ PointLess(j[1], k[1])
       \/ j[1] = k[1] /\ PointLess(j[2], k[2])
       \/ j[1] = k[1] /\ j[2] = k[2] /\ PointLess(j[3], k[3])

\* the triangles of a set as a list, in lexicographic order
RECURSIVE Listed(_)
Listed(T) ==
    IF T = {} THEN <<>>
    ELSE LET m == CHOOSE x \in T : \A y \in T : x = y \/ TriangleLess(x, y)
         IN <<m>> \o Listed(T \ {m})

\* TriangulationPoint { point_surface, point_global } of a local point
TriangulationPoint(cycles, p) ==
    LET ap == CHOOSE x \in ApproxPoints(cycles) : x.local_form = p
    IN [point_surface |-> ap.local_form, point_global |-> ap.global_form]

\* the results delaunay::triangulate(cycles, coord_handedness) can have
Triangulate(cycles, handedness) ==
    {LET l == Listed(T)
     IN [i \in 1..Len(l) |->
           LET w == Wind(l[i], handedness)
           IN [j \in 1..3 |-> TriangulationPoint(cycles, w[j])]] :
       T \in DelaunayTriangulations(LocalPoints(cycles), Constraints(cycles))}

(***************************************************************************)
(* polygon::Polygon                                                        *)
(***************************************************************************)
\* a loop edge with its two ends in units of 1 / k
ScaledEdge(loop, i, k) ==
    LET p == loop[i]
        q == loop[(i % Len(loop)) + 1]
    IN <<<<k * p[1], k * p[2]>>, <<k * q[1], k * q[2]>>>>

\* q, in units of 1 / k, lies on the loop
OnLoop(loop, q, k) ==
    \E i \in 1..Len(loop) :
        OnSegment(ScaledEdge(loop, i, k)[1], ScaledEdge(loop, i, k)[2], q)

\* the edges of the loop that the ray from q in direction +x crosses
Crossings(loop, q, k) ==
    {i \in 1..Len(loop) :
        LET p1 == ScaledEdge(loop, i, k)[1]
            p2 == ScaledEdge(loop, i, k)[2]
        IN \/ p1[2] <= q[2] /\ q[2] < p2[2] /\ Orient(p1, p2, q) > 0
           \/ p2[2] <= q[2] /\ q[2] < p1[2] /\ Orient(p1, p2, q) < 0}

StrictlyInside(loop, q, k) ==
    ~OnLoop(loop, q, k) /\ Cardinality(Crossings(loop, q, k)) % 2 = 1

StrictlyOutside(loop, q, k) ==
    ~OnLoop(loop, q, k) /\ Cardinality(Crossings(loop, q, k)) % 2 = 0

\* q is inside the exterior and outside every hole
ContainsPoint(polygon, q, k) ==
    /\ StrictlyInside(polygon.exterior, q, k)
    /\ \A n \in 1..Len(polygon.interiors) :
          StrictlyOutside(polygon.interiors[n], q, k)

\* Polygon::contains_triangle: the representative interior point of the
\* triangle, its centroid (in thirds), is strictly inside the polygon
ContainsTriangle(polygon, triangle) ==
    ContainsPoint(polygon,
                  <<triangle[1][1] + triangle[2][1] + triangle[3][1],
                    triangle[1][2] + triangle[2][2] + triangle[3][2]>>, 3)

(***************************************************************************)
(* fj_interop::mesh::Mesh                                                  *)
(***************************************************************************)
\* Mesh::new()
EmptyMesh == [vertices |-> <<>>, indices |-> <<>>, triangles |-> <<>>]

\* Color::default()
DefaultColor == <<255, 0, 0, 255>>

\* Mesh::push_vertex: a vertex the mesh holds already is not stored again
PushVertex(m, v) ==
    IF \E i \in 1..Len(m.vertices) : m.vertices[i] = v
      THEN [m EXCEPT !.indices =
                Append(@, (CHOOSE i \in 1..Len(m.vertices) : m.vertices[i] = v) - 1)]
      ELSE [m EXCEPT !.vertices = Append(@, v),
                     !.indices = Append(@, Len(m.vertices))]

\* Mesh::push_triangle
PushTriangle(m, points, color) ==
    LET m3 == PushVertex(PushVertex(PushVertex(m, points[1]), points[2]), points[3])
    IN [m3 EXCEPT !.triangles = Append(@, [inner |-> points, color |-> color])]

\* Mesh::contains_triangle: the same three points, in any order
MeshContainsTriangle(m, points) ==
    \E i \in 1..Len(m.triangles) :
        {m.triangles[i].inner[j] : j \in 1..3} = {points[j] : j \in 1..3}

(***************************************************************************)
(* impl Triangulate for FaceApprox                                         *)
(***************************************************************************)
LocalForms(cycle) == [i \in 1..Len(cycle) |-> cycle[i].local_form]

\* Polygon::new().with_exterior(..).with_interiors(..)
FaceAsPolygon(f) ==
    [exterior |-> LocalForms(f.exterior),
     interiors |-> [n \in 1..Len(f.interiors) |-> LocalForms(f.interiors[n])]]

\* [self.exterior].into_iter().chain(self.interiors)
Cycles(f) == <<f.exterior>> \o f.interiors

\* triangle.map(|point| point.point_surface)
PointSurface(triangle) == [j \in 1..3 |-> triangle[j].point_surface]

\* triangle.map(|point| point.point_global)
PointGlobal(triangle) == [j \in 1..3 |-> triangle[j].point_global]

RetainAll(ts, polygon) == ts

RetainInverted(ts, polygon) ==
    SelectSeq(ts, LAMBDA t : ~ContainsTriangle(polygon, PointSurface(t)))

\* triangles.retain(|triangle| face_as_polygon.contains_triangle(..))
Retain(ts, polygon) ==
    SelectSeq(ts, LAMBDA t : ContainsTriangle(polygon, PointSurface(t)))

\* self.color.unwrap_or_default()
UnwrapOrDefault(color) == IF color = <<>> THEN DefaultColor ELSE color[1]

PushFirstOnly(m, ts, color) ==
    IF ts = <<>> THEN m ELSE PushTriangle(m, PointGlobal(Head(ts)), color)

\* for triangle in triangles { mesh.push_triangle(points, color) }
RECURSIVE PushAll(_, _, _)
PushAll(m, ts, color) ==
    IF ts = <<>> THEN m
    ELSE PushAll(PushTriangle(m, PointGlobal(Head(ts)), color), Tail(ts), color)

\* the mesh after triangulate_into_mesh, ts being what delaunay::triangulate
\* returned
TriangulateIntoMesh(f, ts, m) ==
    PushAll(m, Retain(ts, FaceAsPolygon(f)), UnwrapOrDefault(f.color))

\* the results of delaunay::triangulate for every face of the model
DelaunayResults ==
    [f \in Faces |->
        UNION {{ts} : ts \in Triangulate(Cycles(f), f.coord_handedness)}]

(***************************************************************************)
(* Actions of the triangulation                                            *)
(***************************************************************************)
TriInit ==
    /\ face = NoFace
    /\ triangles = <<>>
    /\ mesh = EmptyMesh
    /\ base = 0
    /\ pending = <<>>

\* Triangulate::triangulate on (shape, tolerance), called once: a new mesh,
\* and the approximation of the shape, its faces, to be triangulated into it
TriangulateShape ==
    /\ pending = <<>>
    /\ face = NoFace
    /\ \E fs \in FaceSeqs(MaxFaces) :
          /\ fs # <<>>
          /\ pending' = fs
    /\ mesh' = EmptyMesh
    /\ face' = NoFace
    /\ triangles' = <<>>
    /\ base' = 0
    /\ UNCHANGED notTriVars

\* one turn of `for approx in approx`: FaceApprox::triangulate_into_mesh
TriangulateFace ==
    /\ pending # <<>>
    /\ \E ts \in DelaunayResults[Head(pending)] :
          /\ triangles' = ts
          /\ mesh' = TriangulateIntoMesh(Head(pending), ts, mesh)
    /\ face' = Head(pending)
    /\ base' = Len(mesh.triangles)
    /\ pending' = Tail(pending)
    /\ UNCHANGED notTriVars

TriNext ==
    \/ TriangulateShape
    \/ TriangulateFace

(***************************************************************************)
(* fj::Mesh (src/fj/src/mesh.rs)                                           *)
(*                                                                         *)
(* A coordinate is an f32.  Six of them are modelled: four finite numbers, *)
(* the negative zero and a NaN.  The callers hand in Point<f32, 3>; the    *)
(* mesh stores Point<R32, 3>.  R32 holds finite numbers only, so the       *)
(* conversion of a NaN stops the program, and its equality and hash take   *)
(* the two zeros for one number.                                           *)
(***************************************************************************)
\* at most this many triangles are added to one mesh
MaxMeshTriangles == 2

F32 == {"0.0", "-0.0", "1.0", "2.0", "3.0", "NaN"}

\* the points handed to Mesh::triangle
MeshPoints == {<<x, "0.0", "0.0">> : x \in F32}

\* f32 == f32
F32Eq(a, b) ==
    /\ a # "NaN"
    /\ b # "NaN"
    /\ (a = b \/ {a, b} = {"0.0", "-0.0"})

\* Point<f32, 3> == Point<f32, 3>
PointEq(v, w) == \A j \in 1..3 : F32Eq(v[j], w[j])

\* R32 == R32 on the f32 values an R32 can hold
R32Eq(a, b) == a = b \/ {a, b} = {"0.0", "-0.0"}

R32EqBitwise(a, b) == a = b

\* Vertex == Vertex, the equality of the keys of indices_by_vertex
VertexEqBitwise(v, w) == \A j \in 1..3 : R32EqBitwise(v[j], w[j])

VertexEq(v, w) == \A j \in 1..3 : R32Eq(v[j], w[j])

\* v.map(|coord| coord.into()) cannot be done: a coordinate is no R32
IntoVertexPanics(v) == \E j \in 1..3 : v[j] = "NaN"

\* Mesh::new()
MeshNew == [indices_by_vertex |-> {}, vertices |-> <<>>, triangles |-> <<>>]

\* Mesh::index_for_vertex: the mesh after the call and the index returned;
\* indices_by_vertex holds the pairs <<vertex, index>>
IndexForVertex(m, vertex) ==
    IF \E e \in m.indices_by_vertex : VertexEq(e[1], vertex)
      THEN [mesh |-> m,
            index |-> (CHOOSE e \in m.indices_by_vertex : VertexEq(e[1], vertex))[2]]
      ELSE [mesh |-> [m EXCEPT
                         !.indices_by_vertex = @ \cup {<<vertex, Len(m.vertices)>>},
                         !.vertices = Append(@, vertex)],
            index |-> Len(m.vertices)]

FirstTwoDiffer(v0, v1, v2) == ~PointEq(v0, v1)

\* assert_ne!(v0, v1); assert_ne!(v0, v2); assert_ne!(v1, v2);
IsRealTriangle(v0, v1, v2) ==
    /\ ~PointEq(v0, v1)
    /\ ~PointEq(v0, v2)
    /\ ~PointEq(v1, v2)

\* Mesh::triangle from the conversions on: the mesh after the call
StoreTriangle(m, v0, v1, v2) ==
    LET r0 == IndexForVertex(m, v0)
        r1 == IndexForVertex(r0.mesh, v1)
        r2 == IndexForVertex(r1.mesh, v2)
    IN [r2.mesh EXCEPT !.triangles = Append(@, <<r0.index, r1.index, r2.index>>)]

\* Mesh::triangle panics: in an assertion or in a conversion
MeshTrianglePanics(v0, v1, v2) ==
    \/ ~IsRealTriangle(v0, v1, v2)
    \/ IntoVertexPanics(v0)
    \/ IntoVertexPanics(v1)
    \/ IntoVertexPanics(v2)

FjInit ==
    /\ fjmesh = MeshNew
    /\ fjpc = "ready"
    /\ fjcall = <<>>
    /\ fjprev = MeshNew

\* Mesh::triangle(v0, v1, v2)
MeshTriangle ==
    /\ fjpc = "ready"
    /\ Len(fjmesh.triangles) < MaxMeshTriangles
    /\ \E v0 \in MeshPoints, v1 \in MeshPoints, v2 \in MeshPoints :
          /\ fjcall' = <<v0, v1, v2>>
          /\ IF MeshTrianglePanics(v0, v1, v2)
               THEN fjpc' = "panicked" /\ fjmesh' = fjmesh
               ELSE fjpc' = "ready" /\ fjmesh' = StoreTriangle(fjmesh, v0, v1, v2)
    /\ fjprev' = fjmesh
    /\ UNCHANGED notFjVars

FjNext == MeshTriangle

(***************************************************************************)
(* Transforming half-edges (fj-core algorithms/transform/edge.rs)          *)
(*                                                                         *)
(* The store holds the objects; a Handle is the position of its object in  *)
(* the store.  Curves, vertices and global edges hold no data: they are    *)
(* identities, told apart by their handles only.                           *)
(***************************************************************************)
\* at most this many half-edges are transformed with one cache
MaxHalfEdges == 2

Transforms == {"identity", "translation", "rotation"}

\* Curve::new(), Vertex::new(), GlobalEdge::new()
CurveNew == [kind |-> "Curve"]

VertexNew == [kind |-> "Vertex"]

GlobalEdgeNew == [kind |-> "GlobalEdge"]

\* the objects that exist before anything is transformed: two curves, two
\* vertices and two global edges
OriginalObjects ==
    <<CurveNew, CurveNew, VertexNew, VertexNew, GlobalEdgeNew, GlobalEdgeNew>>

HandlesOf(objs, kind) == {h \in 1..Len(objs) : objs[h].kind = kind}

\* HalfEdge::new(path, boundary, curve, start_vertex, global_form)
HalfEdgeNew(p, b, curve, start_vertex, global_form) ==
    [path |-> p, boundary |-> b, curve |-> curve,
     start_vertex |-> start_vertex, global_form |-> global_form]

\* the half-edges over the original objects
HalfEdges ==
    {HalfEdgeNew(p, <<0, 1>>, c, v, g) :
        p \in {"Line", "Circle"},
        c \in HandlesOf(OriginalObjects, "Curve"),
        v \in HandlesOf(OriginalObjects, "Vertex"),
        g \in HandlesOf(OriginalObjects, "GlobalEdge")}

RECURSIVE HalfEdgeSeqs(_)
HalfEdgeSeqs(n) ==
    IF n <= 0 THEN {<<>>}
    ELSE HalfEdgeSeqs(n - 1) \cup
         {Append(s, e) : s \in {x \in HalfEdgeSeqs(n - 1) : Len(x) = n - 1},
                          e \in HalfEdges}

\* impl TransformObject for GlobalEdge: the transform is not looked at
TransformGlobalEdgeValue(obj, transform) == GlobalEdgeNew

\* the transform of an object of the store, by its kind
TransformObjectValue(obj, transform) ==
    CASE obj.kind = "GlobalEdge" -> TransformGlobalEdgeValue(obj, transform)
      [] obj.kind = "Curve" -> CurveNew
      [] obj.kind = "Vertex" -> VertexNew

\* the cache is a set of pairs <<original handle, transformed handle>>
CacheHas(cache, h) == \E e \in cache : e[1] = h

CacheGet(cache, h) == (CHOOSE e \in cache : e[1] = h)[2]

\* impl TransformObject for Handle<T>: on a hit the cached handle; on a miss
\* the object is transformed, inserted, and the new handle is cached.
\* st holds the store, the cache and the count of the transforms computed.
TransformHandle(st, h, transform) ==
    IF CacheHas(st.cache, h)
      THEN [st |-> st, handle |-> CacheGet(st.cache, h)]
      ELSE LET new == Len(st.objects) + 1
           IN [st |-> [objects |-> Append(st.objects,
                                          TransformObjectValue(st.objects[h], transform)),
                       cache |-> st.cache \cup {<<h, new>>},
                       count |-> [st.count EXCEPT ![h] = @ + 1]],
               handle |-> new]

\* the object is transformed and inserted whatever the cache holds
TransformHandleUncached(st, h, transform) ==
    LET new == Len(st.objects) + 1
    IN [st |-> [objects |-> Append(st.objects,
                                   TransformObjectValue(st.objects[h], transform)),
                cache |-> st.cache \cup {<<h, new>>},
                count |-> [st.count EXCEPT ![h] = @ + 1]],
        handle |-> new]

PathTransformed(e, transform) ==
    IF transform = "identity" THEN e.path ELSE <<transform, e.path>>

\* let path = self.path(): the path is in surface coordinates
PathOf(e, transform) == e.path

\* let boundary = self.boundary()
BoundaryOf(e, transform) == e.boundary

\* self.curve().clone().transform_with_cache(transform, services, cache)
TransformCurve(st, e, transform) == TransformHandle(st, e.curve, transform)

\* self.start_vertex().clone().transform_with_cache(..)
TransformStartVertex(st, e, transform) ==
    TransformHandle(st, e.start_vertex, transform)

TransformGlobalFormUncached(st, e, transform) ==
    TransformHandleUncached(st, e.global_form, transform)

\* self.global_form().clone().transform_with_cache(..)
TransformGlobalForm(st, e, transform) ==
    TransformHandle(st, e.global_form, transform)

\* impl TransformObject for HalfEdge: the store and cache after the call,
\* and the half-edge returned
TransformHalfEdgeValue(st, e, transform) ==
    LET c == TransformCurve(st, e, transform)
        v == TransformStartVertex(c.st, e, transform)
        g == TransformGlobalForm(v.st, e, transform)
    IN [st |-> g.st,
        half_edge |-> HalfEdgeNew(PathOf(e, transform), BoundaryOf(e, transform),
                                  c.handle, v.handle, g.handle)]

NoGlobalEdge == [kind |-> "none"]

TfInit ==
    /\ tstore = [objects |-> OriginalObjects, cache |-> {},
                 count |-> [h \in 1..Len(OriginalObjects) |-> 0]]
    /\ ttransform = "identity"
    /\ tpending = <<>>
    /\ tins = <<>>
    /\ tres = <<>>
    /\ tge = [result |-> NoGlobalEdge, transform |-> "identity"]

\* a transform of some half-edges is begun, with a cache of its own
TransformBegin ==
    /\ tpending = <<>>
    /\ tins = <<>>
    /\ \E es \in HalfEdgeSeqs(MaxHalfEdges) :
          /\ es # <<>>
          /\ tpending' = es
    /\ \E t \in Transforms : ttransform' = t
    /\ UNCHANGED <<tstore, tins, tres, tge>>
    /\ UNCHANGED notTfVars

\* HalfEdge::transform_with_cache on the next half-edge
TransformHalfEdge ==
    /\ tpending # <<>>
    /\ LET r == TransformHalfEdgeValue(tstore, Head(tpending), ttransform)
       IN /\ tstore' = r.st
          /\ tres' = Append(tres, r.half_edge)
    /\ tins' = Append(tins, Head(tpending))
    /\ tpending' = Tail(tpending)
    /\ UNCHANGED <<ttransform, tge>>
    /\ UNCHANGED notTfVars

\* GlobalEdge::transform_with_cache
TransformGlobalEdge ==
    /\ \E t \in Transforms :
          tge' = [result |-> TransformGlobalEdgeValue(GlobalEdgeNew, t),
                  transform |-> t]
    /\ UNCHANGED <<tstore, ttransform, tpending, tins, tres>>
    /\ UNCHANGED notTfVars

TfNext ==
    \/ TransformBegin
    \/ TransformHalfEdge
    \/ TransformGlobalEdge

(***************************************************************************)
(* Merging partial objects (fj-kernel partial/merge.rs)                    *)
(***************************************************************************)
\* the length N of the arrays merged
MergeLen == 2

\* a call that returned a value, and a call that panicked
Returned(v) == [panicked |-> FALSE, value |-> <<v>>]

Panicked == [panicked |-> TRUE, value |-> <<>>]

\* Option<T>: None and Some(x)
None == <<>>

Some(x) == <<x>>

IsSome(o) == o # None

\* Option::xor
Xor(a, b) ==
    CASE IsSome(a) /\ ~IsSome(b) -> a
      [] ~IsSome(a) /\ IsSome(b) -> b
      [] OTHER -> None

\* handles of three objects; the objects of the first two are equal
MergeHandles ==
    {[id |-> 1, object |-> "a"], [id |-> 2, object |-> "a"],
     [id |-> 3, object |-> "b"]}

MergeOptions == {None} \cup {Some(x) : x \in 1..3}

MergeArrays == [1..MergeLen -> MergeOptions]

\* impl MergeWith for Handle<T>
HandleMergeWith(self, other) ==
    IF self.id = other.id THEN Returned(self) ELSE Panicked

\* impl MergeWith for Option<T>
OptionMergeWith(self, other) ==
    IF self = other THEN Returned(self)
    ELSE IF IsSome(self) /\ IsSome(other) THEN Panicked
    ELSE Returned(Xor(self, other))

ArrayMergeUpToPanic(self, other) ==
    LET merged == [i \in 1..MergeLen |-> OptionMergeWith(self[i], other[i])]
    IN Returned([i \in 1..MergeLen |->
                   IF merged[i].panicked THEN self[i] ELSE merged[i].value[1]])

\* impl MergeWith for [T; N]: the elements are merged in order, and a panic
\* in one of them ends the call
ArrayMergeWith(self, other) ==
    LET merged == [i \in 1..MergeLen |-> OptionMergeWith(self[i], other[i])]
    IN IF \E i \in 1..MergeLen : merged[i].panicked
         THEN Panicked
         ELSE Returned([i \in 1..MergeLen |-> merged[i].value[1]])

\* one merge is followed
MergeInit ==
    /\ mcall = [on |-> "none"]
    /\ mout = Returned(None)

MergeHandle ==
    /\ mcall.on = "none"
    /\ \E self, other \in MergeHandles :
          /\ mcall' = [on |-> "Handle", self |-> self, other |-> other]
          /\ mout' = HandleMergeWith(self, other)
    /\ UNCHANGED notMergeVars

MergeOption ==
    /\ mcall.on = "none"
    /\ \E self, other \in MergeOptions :
          /\ mcall' = [on |-> "Option", self |-> self, other |-> other]
          /\ mout' = OptionMergeWith(self, other)
    /\ UNCHANGED notMergeVars

MergeArray ==
    /\ mcall.on = "none"
    /\ \E self, other \in MergeArrays :
          /\ mcall' = [on |-> "Array", self |-> self, other |-> other]
          /\ mout' = ArrayMergeWith(self, other)
    /\ UNCHANGED notMergeVars

MergeNext ==
    \/ MergeHandle
    \/ MergeOption
    \/ MergeArray

(***************************************************************************)
(* The kernel services (fj-core services/mod.rs)                           *)
(*                                                                         *)
(* The objects service and the validation service are used through         *)
(* Service::execute.  An object is the sequence of the validation errors   *)
(* its validation finds; its id is its position in the store.              *)
(***************************************************************************)
\* at most this many objects are inserted in one session
MaxObjects == 3

\* what validating an object can find
ErrorLists == {<<>>, <<"e1">>, <<"e1", "e2">>}

\* Objects, Operation::InsertObject: the object is stored and one event
\* carrying it is emitted
ObjectsExecute(objects, object) ==
    [objects |-> Append(objects, object),
     events |-> <<[id |-> Len(objects) + 1, object |-> object]>>]

\* ValidationEvent::ValidationFailed: errors.insert(object.id(), err)
ValidationFailed(errors, id, err) ==
    {e \in errors : e[1] # id} \cup {<<id, err>>}

\* the validation of one object: one ValidationFailed per error found
RECURSIVE ValidateObject(_, _, _)
ValidateObject(errors, id, found) ==
    IF found = <<>> THEN errors
    ELSE ValidateObject(ValidationFailed(errors, id, Head(found)), id, Tail(found))

\* ValidationCommand::ValidateObject for each event of the objects service
RECURSIVE ValidateEvents(_, _)
ValidateEvents(errors, events) ==
    IF events = <<>> THEN errors
    ELSE ValidateEvents(ValidateObject(errors, Head(events).id, Head(events).object),
                        Tail(events))

\* ValidationCommand::OnlyValidate: ClearErrors, then the given objects are
\* validated
RECURSIVE ValidateOnly(_, _, _)
ValidateOnly(errors, objects, ids) ==
    IF ids = {} THEN errors
    ELSE LET id == CHOOSE i \in ids : \A j \in ids : i <= j
         IN ValidateOnly(ValidateObject(errors, id, objects[id]), objects,
                         ids \ {id})

OnlyValidateExecute(errors, objects, ids) == ValidateOnly({}, objects, ids)

\* self.validation.errors.values().cloned().collect(): the errors in the
\* order of the ids of their objects
RECURSIVE ErrorValues(_)
ErrorValues(errors) ==
    IF errors = {} THEN <<>>
    ELSE LET e == CHOOSE x \in errors : \A y \in errors : x[1] <= y[1]
         IN <<e[2]>> \o ErrorValues(errors \ {e})

ResultOk == [ok |-> TRUE, errors |-> <<>>]

ResultErr(errors) == [ok |-> FALSE, errors |-> errors]

DropResultOk(errors) == ResultOk

\* Services::drop_and_validate
DropResult(errors) ==
    IF ErrorValues(errors) = <<>> THEN ResultOk ELSE ResultErr(ErrorValues(errors))

NoCall == [op |-> "none"]

\* Services::new
ServicesInit ==
    /\ sobjects = <<>>
    /\ serrors = {}
    /\ spc = "alive"
    /\ sresult = ResultOk
    /\ slast = NoCall

\* Services::insert_object
InsertObject ==
    /\ spc = "alive"
    /\ Len(sobjects) < MaxObjects
    /\ \E object \in ErrorLists :
          LET inserted == ObjectsExecute(sobjects, object)
          IN /\ sobjects' = inserted.objects
             /\ serrors' = ValidateEvents(serrors, inserted.events)
             /\ slast' = [op |-> "insert_object", object |-> object,
                          errors |-> serrors]
    /\ UNCHANGED <<spc, sresult>>
    /\ UNCHANGED notServicesVars

\* Services::only_validate
OnlyValidate ==
    /\ spc = "alive"
    /\ \E ids \in SUBSET (1..Len(sobjects)) :
          /\ serrors' = OnlyValidateExecute(serrors, sobjects, ids)
          /\ slast' = [op |-> "only_validate", objects |-> ids,
                       errors |-> serrors]
    /\ UNCHANGED <<sobjects, spc, sresult>>
    /\ UNCHANGED notServicesVars

\* Services::drop_and_validate
DropAndValidate ==
    /\ spc = "alive"
    /\ spc' = "dropped"
    /\ sresult' = DropResult(serrors)
    /\ slast' = [op |-> "drop_and_validate", errors |-> serrors]
    /\ UNCHANGED <<sobjects, serrors>>
    /\ UNCHANGED notServicesVars

ServicesNext ==
    \/ InsertObject
    \/ OnlyValidate
    \/ DropAndValidate

(***************************************************************************)
(* Sweeping a sketch (fj-core algorithms/sweep/sketch.rs)                  *)
(*                                                                         *)
(* A face of a sketch is told by the edges it holds; the SweepCache is the *)
(* set of the edges swept so far.                                          *)
(***************************************************************************)
\* at most this many faces in a sketch
MaxSketchFaces == 2

SketchEdges == {"e1", "e2", "e3"}

SketchFaces == {[edges |-> es] : es \in (SUBSET SketchEdges) \ {{}}}

RECURSIVE SketchFaceSeqs(_)
SketchFaceSeqs(n) ==
    IF n <= 0 THEN {<<>>}
    ELSE SketchFaceSeqs(n - 1) \cup
         {Append(s, f) : s \in {x \in SketchFaceSeqs(n - 1) : Len(x) = n - 1},
                          f \in SketchFaces}

\* the sketches: the faces that Sketch::faces gives, in their order
Sketches == SketchFaceSeqs(MaxSketchFaces)

SweepPaths == {<<0, 0, 1>>, <<0, 0, -1>>}

\* path.into(): the array as a Vector<3>
IntoVector(p) == [x |-> p[1], y |-> p[2], z |-> p[3]]

\* Face::sweep_with_cache: the shell of the face, sweeping the edges the
\* cache does not hold and taking the others from it
SweepFace(f, p, cache) ==
    [shell |-> [kind |-> "Shell", face |-> f, path |-> p,
                swept |-> f.edges \ cache, cached |-> f.edges \cap cache],
     cache |-> cache \cup f.edges]

PushShellFront(shells, shell) == <<shell>> \o shells

\* shells.push(shell)
PushShell(shells, shell) == Append(shells, shell)

\* for face in self.0.faces(..): the shells and the cache after the loop
RECURSIVE SweepFaces(_, _, _, _)
SweepFaces(faces, p, cache, shells) ==
    IF faces = <<>> THEN [shells |-> shells, cache |-> cache]
    ELSE LET swept == SweepFace(Head(faces), p, cache)
         IN SweepFaces(Tail(faces), p, swept.cache, PushShell(shells, swept.shell))

\* Solid::new(shells)
SolidNew(shells) == [kind |-> "Solid", shells |-> shells]

\* <(Handle<Sketch>, Handle<Surface>) as Sweep>::sweep_with_cache: the
\* solid, the cache as the call leaves it, and the objects inserted
SweepSketchValue(sketch, p, cache) ==
    LET swept == SweepFaces(sketch, IntoVector(p), cache, <<>>)
    IN [solid |-> SolidNew(swept.shells),
        cache |-> swept.cache,
        inserted |-> Append(swept.shells, SolidNew(swept.shells))]

SweepInit ==
    /\ wcall = [op |-> "none"]
    /\ wout = [solid |-> SolidNew(<<>>), cache |-> {}, inserted |-> <<>>]

\* one sweep is followed
SweepSketch ==
    /\ wcall.op = "none"
    /\ \E sketch \in Sketches, p \in SweepPaths, cache \in SUBSET SketchEdges :
          /\ wcall' = [op |-> "sweep_with_cache", sketch |-> sketch,
                       path |-> p, cache |-> cache]
          /\ wout' = SweepSketchValue(sketch, p, cache)
    /\ UNCHANGED notSweepVars

SweepNext == SweepSketch

(***************************************************************************)
(* Sweeping a shape (kernel/algorithms/sweep.rs)                           *)
(*                                                                         *)
(* Points and vectors are triples of integers.  A face of the original is  *)
(* told by where it lies; an edge cycle is told by the segments its        *)
(* approximation holds.                                                    *)
(***************************************************************************)
\* at most this many faces in the original shape
MaxShapeFaces == 2

\* at most this many edge cycles in the original shape
MaxCycles == 2

PointA == <<0, 0, 0>>

PointB == <<1, 0, 0>>

PointC == <<0, 1, 0>>

\* Segment: its two points
SegmentOf(a, b) == <<a, b>>

\* Approximation::for_cycle: the segments approximating a cycle; none, one
\* edge, an edge there and back, and a triangle
Approximations ==
    {<<>>,
     <<SegmentOf(PointA, PointB)>>,
     <<SegmentOf(PointA, PointB), SegmentOf(PointB, PointA)>>,
     <<SegmentOf(PointA, PointB), SegmentOf(PointB, PointC),
       SegmentOf(PointC, PointA)>>}

ForCycle(cycle, tol) == cycle.segments

ShapeCycles == {[segments |-> a] : a \in Approximations}

\* Face::Face
ShapeFaces == {[kind |-> "Face", at |-> p] : p \in {PointA, PointB}}

RECURSIVE SeqsUpTo(_, _)
SeqsUpTo(S, n) ==
    IF n <= 0 THEN {<<>>}
    ELSE SeqsUpTo(S, n - 1) \cup
         {Append(s, x) : s \in {y \in SeqsUpTo(S, n - 1) : Len(y) = n - 1},
                          x \in S}

\* the original shapes: Shape { faces, edges: Edges { cycles } }
OriginalShapes ==
    {[faces |-> fs, cycles |-> cs] :
        fs \in SeqsUpTo(ShapeFaces, MaxShapeFaces),
        cs \in SeqsUpTo(ShapeCycles, MaxCycles)}

\* the sweep paths leave the plane of the sketch
ShapePaths == {<<0, 0, 1>>, <<1, 0, 2>>}

\* Transform::translation(path) on a point
Translate(p, v) == <<p[1] + v[1], p[2] + v[2], p[3] + v[3]>>

\* Transform::transform_segment
TransformSegment(segment, v) ==
    SegmentOf(Translate(segment[1], v), Translate(segment[2], v))

\* transform_face
TransformFace(f, v) == [f EXCEPT !.at = Translate(@, v)]

\* [Point<3>; 3] into a Triangle
IntoTriangle(a, b, c) == [points |-> <<a, b, c>>]

QuadOfUncrossed(segment, v) ==
    LET v0 == segment[1]
        v1 == segment[2]
        translated == TransformSegment(segment, v)
        v2 == translated[1]
        v3 == translated[2]
    IN <<v0, v1, v2, v3>>

\* let [v0, v1] = segment.points(); let [v3, v2] = the translated segment's
QuadOf(segment, v) ==
    LET v0 == segment[1]
        v1 == segment[2]
        translated == TransformSegment(segment, v)
        v3 == translated[1]
        v2 == translated[2]
    IN <<v0, v1, v2, v3>>

\* for segment in approx.segments: quads.push([v0, v1, v2, v3])
RECURSIVE QuadsOf(_, _)
QuadsOf(segments, v) ==
    IF segments = <<>> THEN <<>>
    ELSE <<QuadOf(Head(segments), v)>> \o QuadsOf(Tail(segments), v)

\* for [v0, v1, v2, v3] in quads: two triangles are pushed
RECURSIVE SideTriangles(_)
SideTriangles(quads) ==
    IF quads = <<>> THEN <<>>
    ELSE LET q == Head(quads)
         IN <<IntoTriangle(q[1], q[2], q[3]), IntoTriangle(q[1], q[3], q[4])>>
            \o SideTriangles(Tail(quads))

\* Face::Triangles
FaceTriangles(ts) == [kind |-> "Triangles", triangles |-> ts]

\* the loop over original.edges.cycles: one side face per cycle
RECURSIVE SideFaces(_, _, _)
SideFaces(cycles, v, tol) ==
    IF cycles = <<>> THEN <<>>
    ELSE <<FaceTriangles(SideTriangles(QuadsOf(ForCycle(Head(cycles), tol), v)))>>
         \o SideFaces(Tail(cycles), v, tol)

\* the loop over original.faces: bottom_faces
BottomFaces(faces) == faces

\* the loop over original.faces: top_faces
TopFaces(faces, v) == [i \in 1..Len(faces) |-> TransformFace(faces[i], v)]

\* sweep_shape: the faces of the shape returned
SweepShapeValue(original, v, tol) ==
    BottomFaces(original.faces) \o TopFaces(original.faces, v)
        \o SideFaces(original.cycles, v, tol)

\* one sweep is followed
ShapeInit ==
    /\ hcall = [op |-> "none"]
    /\ hfaces = <<>>

SweepShape ==
    /\ hcall.op = "none"
    /\ \E original \in OriginalShapes, v \in ShapePaths :
          /\ hcall' = [op |-> "sweep_shape", original |-> original, path |-> v]
          /\ hfaces' = SweepShapeValue(original, v, 0)
    /\ UNCHANGED notShapeVars

ShapeNext == SweepShape

Init ==
    /\ PathInit /\ TriInit /\ FjInit /\ TfInit /\ MergeInit /\ ServicesInit
    /\ SweepInit /\ ShapeInit

SpecPath == Init /\ [][PathNext]_vars

SpecTri == Init /\ [][TriNext]_vars

SpecMesh == Init /\ [][FjNext]_vars

SpecTransform == Init /\ [][TfNext]_vars

SpecMerge == Init /\ [][MergeNext]_vars

SpecServices == Init /\ [][ServicesNext]_vars

SpecSweep == Init /\ [][SweepNext]_vars

SpecShape == Init /\ [][ShapeNext]_vars

\* the closure of iter::from_fn is called until it returns None
SpecPoints == Init /\ [][PointsNext]_vars /\ WF_vars(IterNextBounded)

(***************************************************************************)
(* Properties of the path approximation                                    *)
(***************************************************************************)
\* a call on a circle has run to its end and returned its points
CircleDone == pc = "done" /\ path # "Line"

\* the boundary in lattice units, smaller endpoint first
UnitsMin(inc, b) ==
    LET ab == Div(b[1], inc) IN LET bb == Div(b[2], inc) IN IF ab < bb THEN ab ELSE bb

UnitsMax(inc, b) ==
    LET ab == Div(b[1], inc) IN LET bb == Div(b[2], inc) IN IF ab < bb THEN bb ELSE ab

\* the integers between the rounded-down and rounded-up boundary
IndexSpan(inc, b) ==
    (Floor(UnitsMin(inc, b)) \div One)..(Ceil(UnitsMax(inc, b)) \div One)

\* the lattice indices strictly between the two endpoints, in lattice units
IndicesInside(inc, b) ==
    {k \in IndexSpan(inc, b) :
        UnitsMin(inc, b) < FromInt(k) /\ FromInt(k) < UnitsMax(inc, b)}

LatticePoint(inc, k) == RoundRatio(inc * FromInt(k), One)

IndicesOf(inc, b, points) ==
    {k \in IndexSpan(inc, b) : \E j \in 1..Len(points) : points[j] = LatticePoint(inc, k)}

\* C1: no point a call returns equals either endpoint of its boundary; in
\* particular an endpoint that is itself a lattice point is not returned.
C1_BoundaryExclusive ==
    \A j \in 1..Len(out) : out[j] # boundary[1] /\ out[j] # boundary[2]

\* C2: the increment is the one for_circle computed from the circle and the
\* tolerance alone, whatever the boundary, and every point returned is
\* increment * k for an integer k.
C2_OnLattice ==
    /\ (pc \in {"params", "iter", "done"} /\ path # "Line")
          => increment = Div(TAU, FromInt(NumVertices(AcosMicro(OneMinusRatio(radius, tolerance)))))
    /\ (pc \in {"iter", "done"} /\ path # "Line")
          => \A j \in 1..Len(out) :
                \E k \in IndexSpan(increment, boundary) : out[j] = LatticePoint(increment, k)

C2_Witness ==
    /\ pc = "done"
    /\ call = "points"
    /\ Len(out) >= 3
    /\ boundary[1] \notin LatticeEndpoints(increment)

\* the set S with its elements listed
Enumerated(S) == UNION {{x} : x \in S}

\* every circle of the model with each of its boundaries
CircleCalls ==
    Enumerated(UNION {{<<rt, b>> : b \in Boundaries(ForCircle(rt[1], rt[2]))} :
                        rt \in {x \in CircleInputs : ~ForCirclePanics(x[1], x[2])}})

\* for every circle and boundary of the model: the points computed, their
\* lattice indices, and the lattice indices strictly inside the boundary
AllPoints ==
    [cb \in CircleCalls |-> PointsOf(ForCircle(cb[1][1], cb[1][2]), cb[2])]

AllIndices ==
    [cb \in CircleCalls |->
        LET points == PointsOf(ForCircle(cb[1][1], cb[1][2]), cb[2])
        IN Enumerated(IndicesOf(ForCircle(cb[1][1], cb[1][2]), cb[2], points))]

AllInside ==
    [cb \in CircleCalls |-> Enumerated(IndicesInside(ForCircle(cb[1][1], cb[1][2]), cb[2]))]

TestCircle == radius = 1000 /\ tolerance = 375

Indexed(ks) == [j \in 1..Len(ks) |-> LatticePoint(increment, ks[j])]

\* C5 as stated: [0, 2 pi] gives the indices 1, 2, 3; [2 * increment, 2 pi]
\* gives 2, 3; [2 pi, 0] gives 3, 2, 1.
C5_RangeFilteringAsStated ==
    (CircleDone /\ TestCircle) =>
        /\ increment = Div(TAU, FromInt(4))
        /\ boundary = <<0, TAU>> => out = Indexed(<<1, 2, 3>>)
        /\ boundary = <<LatticePoint(increment, 2), TAU>> => out = Indexed(<<2, 3>>)
        /\ boundary = <<TAU, 0>> => out = Indexed(<<3, 2, 1>>)

\* C5 amended: [2 * increment, 2 pi] gives the index 3 alone, its endpoint
\* being the lattice point 2; it is the boundary [2, 2 pi] of the test, whose
\* first endpoint is the parameter 2.0, that gives 2, 3.
C5_RangeFiltering ==
    (CircleDone /\ TestCircle) =>
        /\ increment = Div(TAU, FromInt(4))
        /\ boundary = <<0, TAU>> => out = Indexed(<<1, 2, 3>>)
        /\ boundary = <<LatticePoint(increment, 2), TAU>> => out = Indexed(<<3>>)
        /\ boundary = <<FromInt(2), TAU>> => out = Indexed(<<2, 3>>)
        /\ boundary = <<TAU, 0>> => out = Indexed(<<3, 2, 1>>)

C5_Witness ==
    /\ CircleDone
    /\ TestCircle
    /\ call = "points"
    /\ boundary = <<LatticePoint(increment, 2), TAU>>
    /\ Len(out) = 1

\* C6: a line path has no points, whatever the boundary and the tolerance;
\* only a circle returns any.
C6_LineIsEmpty ==
    /\ path = "Line" => out = <<>>
    /\ out # <<>> => (path = "Circle" \/ call = "points")

C6_Witness ==
    /\ pc = "done"
    /\ path = "Line"
    /\ call = "global"
    /\ boundary = <<0, TAU>>
    /\ tolerance = 10

\* C7: for every positive tolerance and radius for_circle returns
\* increment = TAU / n with n = ceil(max(3, PI / acos(1 - tolerance / radius)))
\* an integer >= 3, without failing; n is 3, 7, 23 for radius 1 and
\* tolerance 0.5, 0.1, 0.01.
C7_IncrementFormula ==
    (call = "points" /\ pc # "start") =>
        /\ pc # "panicked"
        /\ \E n \in 3..64 :
              /\ increment = Div(TAU, FromInt(n))
              /\ PiMicro <= n * AcosMicro(OneMinusRatio(radius, tolerance))
              /\ n = 3 \/ (n - 1) * AcosMicro(OneMinusRatio(radius, tolerance)) < PiMicro
              /\ (radius = 1000 /\ tolerance = 500) => n = 3
              /\ (radius = 1000 /\ tolerance = 100) => n = 7
              /\ (radius = 1000 /\ tolerance = 10) => n = 23

(***************************************************************************)
(* Properties of the triangulation                                         *)
(***************************************************************************)
\* a call of FaceApprox::triangulate_into_mesh has returned
FaceDone == face # NoFace

FaceIs(shape) ==
    /\ FaceDone
    /\ FaceAsPolygon(face).exterior = Exterior(shape)
    /\ FaceAsPolygon(face).interiors = Interiors(shape)

\* the triangles that call pushed
Emitted == SubSeq(mesh.triangles, base + 1, Len(mesh.triangles))

\* the global point the face pairs with a local point
GlobalOf(p) ==
    (CHOOSE ap \in ApproxPoints(Cycles(face)) : ap.local_form = p).global_form

\* that call pushed the triangle with the local corners p, q, r, in any order
EmittedTriangle(p, q, r) ==
    \E i \in 1..Len(Emitted) :
        {Emitted[i].inner[j] : j \in 1..3} = {GlobalOf(p), GlobalOf(q), GlobalOf(r)}

\* delaunay::triangulate returned the triangle with the local corners p, q, r
ComputedTriangle(p, q, r) ==
    \E i \in 1..Len(triangles) :
        {triangles[i][j].point_surface : j \in 1..3} = {p, q, r}

\* the triangle lies in the polygon: four points of its interior, the
\* centroid and the points halfway from it to each corner (in sixths), are
\* inside the exterior loop and outside every hole
LiesInPolygon(polygon, a, b, c) ==
    \A w \in {<<2, 2, 2>>, <<4, 1, 1>>, <<1, 4, 1>>, <<1, 1, 4>>} :
        ContainsPoint(polygon,
                      <<w[1] * a[1] + w[2] * b[1] + w[3] * c[1],
                        w[1] * a[2] + w[2] * b[2] + w[3] * c[2]>>, 6)

Area2(a, b, c) == Abs(Orient(a, b, c))

RECURSIVE SumOver(_, _)
SumOver(f, n) == IF n = 0 THEN 0 ELSE f[n] + SumOver(f, n - 1)

\* twice the area a loop encloses
LoopArea2(loop) ==
    Abs(SumOver([i \in 1..Len(loop) |->
                    LET p == loop[i]
                        q == loop[(i % Len(loop)) + 1]
                    IN p[1] * q[2] - q[1] * p[2]], Len(loop)))

PolygonArea2(polygon) ==
    LoopArea2(polygon.exterior)
      - SumOver([n \in 1..Len(polygon.interiors) |-> LoopArea2(polygon.interiors[n])],
                Len(polygon.interiors))

\* the indices of the computed triangles that lie in the polygon of the face
InsideIndices ==
    {i \in 1..Len(triangles) :
        LiesInPolygon(FaceAsPolygon(face), triangles[i][1].point_surface,
                      triangles[i][2].point_surface, triangles[i][3].point_surface)}

\* C8: a call pushes exactly the computed Delaunay triangles that lie inside
\* the exterior loop and outside every hole, each once, so that they fill the
\* polygon; for the square with the hole e, f, g, h none of efg, egh, efh, fgh
\* is pushed; every pushed triangle has the global points paired with its
\* local points and the colour of the face, the default colour when unset.
C8_HoleExclusion ==
    FaceDone =>
        LET inside == Enumerated(InsideIndices)
        IN /\ Len(Emitted) = Cardinality(inside)
           /\ \A i \in inside :
                 \E n \in 1..Len(Emitted) :
                    Emitted[n].inner = [j \in 1..3 |->
                                          GlobalOf(triangles[i][j].point_surface)]
           /\ SumOver([i \in 1..Len(triangles) |->
                         IF i \in inside
                           THEN Area2(triangles[i][1].point_surface,
                                      triangles[i][2].point_surface,
                                      triangles[i][3].point_surface)
                           ELSE 0], Len(triangles))
                = PolygonArea2(FaceAsPolygon(face))
           /\ \A n \in 1..Len(Emitted) :
                 Emitted[n].color =
                    (IF face.color = <<>> THEN <<255, 0, 0, 255>> ELSE face.color[1])
           /\ FaceIs("hole") =>
                 /\ ~EmittedTriangle(<<1, 1>>, <<1, 2>>, <<3, 3>>)
                 /\ ~EmittedTriangle(<<1, 1>>, <<3, 3>>, <<3, 1>>)
                 /\ ~EmittedTriangle(<<1, 1>>, <<1, 2>>, <<3, 1>>)
                 /\ ~EmittedTriangle(<<1, 2>>, <<3, 3>>, <<3, 1>>)

C8_Witness ==
    /\ FaceIs("hole")
    /\ face.color = <<>>
    /\ base > 0
    /\ Len(triangles) = 10
    /\ Len(Emitted) = 8
    /\ ComputedTriangle(<<1, 1>>, <<1, 2>>, <<3, 1>>)
    /\ ComputedTriangle(<<1, 2>>, <<3, 3>>, <<3, 1>>)

\* the Delaunay triangulations of the points of the face alone, no edge
\* of a loop being imposed
UnconstrainedDelaunay ==
    DelaunayTriangulations(LocalPoints(Cycles(face)), {})

C10_TriangulationValidity ==
    FaceIs("simple") =>
        /\ Len(Emitted) = 2
        /\ \A o \in {<<1, 2, 3>>, <<2, 3, 1>>, <<3, 1, 2>>, <<3, 2, 1>>} :
              LET abd == <<<<0, 0>>, <<2, 0>>, <<0, 1>>>>
                  bcd == <<<<2, 0>>, <<2, 2>>, <<0, 1>>>>
                  abc == <<<<0, 0>>, <<2, 0>>, <<2, 2>>>>
                  acd == <<<<0, 0>>, <<2, 2>>, <<0, 1>>>>
              IN /\ EmittedTriangle(abd[o[1]], abd[o[2]], abd[o[3]])
                 /\ EmittedTriangle(bcd[o[1]], bcd[o[2]], bcd[o[3]])
                 /\ ~EmittedTriangle(abc[o[1]], abc[o[2]], abc[o[3]])
                 /\ ~EmittedTriangle(acd[o[1]], acd[o[2]], acd[o[3]])
        /\ Area2(<<0, 0>>, <<2, 0>>, <<0, 1>>) + Area2(<<2, 0>>, <<2, 2>>, <<0, 1>>)
             = PolygonArea2(FaceAsPolygon(face))

C10_Witness ==
    /\ FaceIs("simple")
    /\ base = 0
    /\ pending = <<>>
    /\ Len(mesh.triangles) = 2
    /\ Len(mesh.vertices) = 4

(***************************************************************************)
(* Properties of fj::Mesh                                                  *)
(***************************************************************************)
\* the number a coordinate stands for; the two zeros are one number
NumberOf(a) == IF a = "-0.0" THEN "0.0" ELSE a

\* two points are the same point
SamePoint(v, w) == \A j \in 1..3 : NumberOf(v[j]) = NumberOf(w[j])

\* the last call of Mesh::triangle was handed two equal vertices
CallDegenerate ==
    /\ fjcall # <<>>
    /\ \E i \in 1..3 : \E j \in 1..3 :
          /\ i # j
          /\ SamePoint(fjcall[i], fjcall[j])

\* C11: every stored triangle has three pairwise distinct indices, which
\* stand for three different points; a call with two equal vertices panics,
\* and a call that panics leaves the mesh as it found it.
C11_NoDegenerateTriangle ==
    /\ \A n \in 1..Len(fjmesh.triangles) :
          LET t == fjmesh.triangles[n]
          IN /\ t[1] # t[2] /\ t[1] # t[3] /\ t[2] # t[3]
             /\ ~SamePoint(fjmesh.vertices[t[1] + 1], fjmesh.vertices[t[2] + 1])
             /\ ~SamePoint(fjmesh.vertices[t[1] + 1], fjmesh.vertices[t[3] + 1])
             /\ ~SamePoint(fjmesh.vertices[t[2] + 1], fjmesh.vertices[t[3] + 1])
    /\ CallDegenerate => fjpc = "panicked"
    /\ fjpc = "panicked" => fjmesh = fjprev

C11_Witness ==
    /\ fjpc = "panicked"
    /\ Len(fjprev.triangles) = 1
    /\ fjcall[1][1] = "0.0"
    /\ fjcall[2][1] = "-0.0"
    /\ fjcall[3][1] = "1.0"

\* the last call of Mesh::triangle returned
CallStored == fjcall # <<>> /\ fjpc = "ready"

\* C12: the vertices list holds no point twice; indices_by_vertex maps each
\* stored vertex to its position, which a later call does not change; every
\* index of a triangle is a position of the list, and the indices of the
\* triangle just added are those of the points handed in; a triangle whose
\* points are all stored already leaves the list as it was.
C12_Deduplicated ==
    /\ \A i \in 1..Len(fjmesh.vertices) : \A j \in 1..Len(fjmesh.vertices) :
          i # j => ~SamePoint(fjmesh.vertices[i], fjmesh.vertices[j])
    /\ fjmesh.indices_by_vertex =
          {<<fjmesh.vertices[i], i - 1>> : i \in 1..Len(fjmesh.vertices)}
    /\ Len(fjprev.vertices) <= Len(fjmesh.vertices)
    /\ \A i \in 1..Len(fjprev.vertices) : fjmesh.vertices[i] = fjprev.vertices[i]
    /\ \A n \in 1..Len(fjmesh.triangles) : \A j \in 1..3 :
          fjmesh.triangles[n][j] \in 0..(Len(fjmesh.vertices) - 1)
    /\ CallStored =>
          /\ Len(fjmesh.triangles) = Len(fjprev.triangles) + 1
          /\ \A j \in 1..3 :
                SamePoint(fjmesh.vertices[fjmesh.triangles[Len(fjmesh.triangles)][j] + 1],
                          fjcall[j])
          /\ (\A j \in 1..3 : \E i \in 1..Len(fjprev.vertices) :
                 SamePoint(fjprev.vertices[i], fjcall[j]))
               => fjmesh.vertices = fjprev.vertices

C12_Witness ==
    /\ CallStored
    /\ Len(fjmesh.triangles) = 2
    /\ Len(fjmesh.vertices) = 4
    /\ fjcall[1][1] = "-0.0"
    /\ fjmesh.vertices[fjmesh.triangles[2][1] + 1][1] = "0.0"

(***************************************************************************)
(* Properties of the half-edge transform                                   *)
(***************************************************************************)
Originals == 1..Len(OriginalObjects)

\* the children of a half-edge
ChildrenOf(e) == {e.curve, e.start_vertex, e.global_form}

\* the children of the half-edges transformed so far
ChildrenDone == UNION {ChildrenOf(tins[i]) : i \in 1..Len(tins)}

\* C13: with one cache, the transform of a curve, start vertex or global
\* edge is computed once however many half-edges hold it: it is computed
\* exactly when the first half-edge holding it is transformed, every
\* half-edge holding it gets the same transformed handle, and the store grows
\* by one object per distinct child.
C13_StructureSharing ==
    /\ Len(tres) = Len(tins)
    /\ \A h \in Originals :
          /\ tstore.count[h] <= 1
          /\ tstore.count[h] = 1 <=> h \in ChildrenDone
          /\ tstore.count[h] = 1 <=> CacheHas(tstore.cache, h)
    /\ \A e1, e2 \in tstore.cache : e1[1] = e2[1] => e1 = e2
    /\ Len(tstore.objects) = Len(OriginalObjects) + Cardinality(ChildrenDone)
    /\ \A i, j \in 1..Len(tins) :
          /\ tins[i].curve = tins[j].curve => tres[i].curve = tres[j].curve
          /\ tins[i].start_vertex = tins[j].start_vertex
                => tres[i].start_vertex = tres[j].start_vertex
          /\ tins[i].global_form = tins[j].global_form
                => tres[i].global_form = tres[j].global_form

\* two half-edges of one global edge and one curve, and of different start
\* vertices, have been transformed
C13_Witness ==
    /\ Len(tres) = 2
    /\ tins[1].global_form = tins[2].global_form
    /\ tins[1].curve = tins[2].curve
    /\ tins[1].start_vertex # tins[2].start_vertex
    /\ tres[1].global_form = tres[2].global_form
    /\ Len(tstore.objects) = Len(OriginalObjects) + 4

\* C14: the half-edge returned for a half-edge has the path and the boundary
\* of the original, and its curve, start vertex and global form are the
\* handles the cache holds for the original's: objects of the same kind
\* that did not exist before.  The transform of a GlobalEdge is a new
\* GlobalEdge whatever the transform is.
C14_HalfEdgeTransform ==
    /\ \A i \in 1..Len(tres) :
          /\ i <= Len(tins)
          /\ tres[i].path = tins[i].path
          /\ tres[i].boundary = tins[i].boundary
          /\ \A f \in {"curve", "start_vertex", "global_form"} :
                /\ CacheHas(tstore.cache, tins[i][f])
                /\ tres[i][f] = CacheGet(tstore.cache, tins[i][f])
                /\ tres[i][f] \notin Originals
                /\ tres[i][f] \in 1..Len(tstore.objects)
                /\ tstore.objects[tres[i][f]].kind = tstore.objects[tins[i][f]].kind
          /\ tstore.objects[tres[i].global_form] = GlobalEdgeNew
    /\ tge.result \in {NoGlobalEdge, GlobalEdgeNew}

\* a circle half-edge has been rotated, and a GlobalEdge has been translated
C14_Witness ==
    /\ Len(tres) >= 1
    /\ ttransform = "rotation"
    /\ tins[1].path = "Circle"
    /\ tres[1].path = "Circle"
    /\ tge.result = GlobalEdgeNew
    /\ tge.transform = "translation"

(***************************************************************************)
(* Properties of merging                                                   *)
(***************************************************************************)
\* what the claim gives for two options: the value, or "panic"
OptionMerged(a, b) ==
    CASE a = b -> a
      [] a = None -> b
      [] b = None -> a
      [] OTHER -> "panic"

\* C15: a merge returns the merged value or panics, and returns nothing
\* when it panics.  Handles: self when the ids are equal, a panic otherwise,
\* equal objects or not.  Options: the common value when equal, the one
\* present value when exactly one is Some, a panic when both are Some and
\* differ.  Arrays: element by element; a panic when any pair of elements
\* panics, and otherwise the array of the merged elements.
C15_MergeFailStop ==
    /\ mout.panicked => mout.value = <<>>
    /\ mcall.on = "Handle" =>
          IF mcall.self.id = mcall.other.id
            THEN mout = Returned(mcall.self)
            ELSE mout.panicked
    /\ mcall.on = "Option" =>
          IF OptionMerged(mcall.self, mcall.other) = "panic"
            THEN mout.panicked
            ELSE mout = Returned(OptionMerged(mcall.self, mcall.other))
    /\ mcall.on = "Array" =>
          IF \E i \in 1..MergeLen :
                OptionMerged(mcall.self[i], mcall.other[i]) = "panic"
            THEN mout.panicked
            ELSE /\ ~mout.panicked
                 /\ \A i \in 1..MergeLen :
                       mout.value[1][i] = OptionMerged(mcall.self[i], mcall.other[i])

\* an array merge whose first elements merge and whose last elements cannot
\* has panicked
C15_Witness ==
    /\ mcall.on = "Array"
    /\ mcall.self[1] = None
    /\ mcall.other[1] = Some(1)
    /\ mcall.self[MergeLen] = Some(1)
    /\ mcall.other[MergeLen] = Some(2)
    /\ mout = Panicked

(***************************************************************************)
(* Properties of the services                                              *)
(***************************************************************************)
Last(s) == s[Len(s)]

\* the errors recorded for the objects ids: for each that has errors, the
\* one recorded last
RecordedFor(ids) ==
    {<<id, Last(sobjects[id])>> : id \in {i \in ids : sobjects[i] # <<>>}}

\* C16: insert_object stores the object and then has it validated, and
\* returns whatever the validation finds: the errors recorded before stay,
\* and the object's error is recorded with them.  only_validate leaves
\* exactly the errors of the objects given.  drop_and_validate returns Err
\* with every recorded error when there is one, and Ok(()) when there is
\* none; nothing is reported before.
C16_ErrorsAtSessionEnd ==
    /\ slast.op = "insert_object" =>
          /\ sobjects # <<>>
          /\ Last(sobjects) = slast.object
          /\ spc = "alive"
          /\ serrors = slast.errors \cup RecordedFor({Len(sobjects)})
    /\ slast.op = "only_validate" =>
          serrors = RecordedFor(slast.objects)
    /\ spc = "alive" => sresult = ResultOk
    /\ spc = "dropped" =>
          /\ slast.op = "drop_and_validate"
          /\ sresult.ok <=> serrors = {}
          /\ Len(sresult.errors) = Cardinality(serrors)
          /\ \A e \in serrors : \E i \in 1..Len(sresult.errors) : sresult.errors[i] = e[2]
          /\ \A i \in 1..Len(sresult.errors) : \E e \in serrors : sresult.errors[i] = e[2]

\* a valid object was inserted after two invalid ones, and the session ended
\* with the errors of both
C16_Witness ==
    /\ spc = "dropped"
    /\ Len(sobjects) = 3
    /\ sobjects[1] # <<>>
    /\ sobjects[2] # <<>>
    /\ sobjects[3] = <<>>
    /\ sresult = ResultErr(<<Last(sobjects[1]), Last(sobjects[2])>>)

(***************************************************************************)
(* Properties of the sweep of a sketch                                     *)
(***************************************************************************)
\* the edges of the first n faces of a sketch
EdgesBefore(sketch, n) == UNION {sketch[i].edges : i \in 1..n}

\* C17: the sweep of a sketch inserts exactly one solid; its shells are the
\* shells of the faces of the sketch, one per face in the order of the
\* faces, none for a sketch without faces; every face is swept along the
\* same path and with the one cache: each face finds in it what the call
\* was given and what the faces before it have swept.
C17_OneShellPerFace ==
    wcall.op = "sweep_with_cache" =>
        /\ Cardinality({i \in 1..Len(wout.inserted) :
                           wout.inserted[i].kind = "Solid"}) = 1
        /\ wout.inserted[Len(wout.inserted)] = wout.solid
        /\ wout.solid.kind = "Solid"
        /\ Len(wout.solid.shells) = Len(wcall.sketch)
        /\ \A i \in 1..Len(wcall.sketch) :
              LET shell == wout.solid.shells[i]
                  held == wcall.cache \cup EdgesBefore(wcall.sketch, i - 1)
              IN /\ shell.kind = "Shell"
                 /\ shell.face = wcall.sketch[i]
                 /\ shell.path = IntoVector(wcall.path)
                 /\ shell.cached = wcall.sketch[i].edges \cap held
                 /\ shell.swept = wcall.sketch[i].edges \ held
        /\ wout.cache = wcall.cache \cup EdgesBefore(wcall.sketch, Len(wcall.sketch))

\* a sketch of two different faces sharing an edge has been swept with an
\* empty cache: the second shell took the shared edge from the cache
C17_Witness ==
    /\ wcall.op = "sweep_with_cache"
    /\ Len(wcall.sketch) = 2
    /\ wcall.cache = {}
    /\ wcall.sketch[1].edges = {"e1", "e2"}
    /\ wcall.sketch[2].edges = {"e2", "e3"}
    /\ wout.solid.shells[2].cached = {"e2"}
    /\ wout.solid.shells[1].swept = {"e1", "e2"}

(***************************************************************************)
(* Properties of the sweep of a shape                                      *)
(***************************************************************************)
Moved(p) == <<p[1] + hcall.path[1], p[2] + hcall.path[2], p[3] + hcall.path[3]>>

\* C18: the faces of the swept shape are the original faces, then their
\* translated copies, then one side face per edge cycle, each in the order
\* of the original: 2 * |faces| + |cycles| faces in all.  A side face holds
\* two triangles per segment of its cycle's approximation, (v0, v1, v2) and
\* (v0, v2, v3), v0 and v1 being the segment's points, v3 and v2 these
\* points moved along the path.
C18_SweptFaces ==
    hcall.op = "sweep_shape" =>
        LET faces == hcall.original.faces
            cycles == hcall.original.cycles
            n == Len(faces)
        IN /\ Len(hfaces) = 2 * n + Len(cycles)
           /\ \A i \in 1..n :
                 /\ hfaces[i] = faces[i]
                 /\ hfaces[n + i].kind = "Face"
                 /\ hfaces[n + i].at = Moved(faces[i].at)
           /\ \A c \in 1..Len(cycles) :
                 LET side == hfaces[2 * n + c]
                     segments == cycles[c].segments
                 IN /\ side.kind = "Triangles"
                    /\ Len(side.triangles) = 2 * Len(segments)
                    /\ \A k \in 1..Len(segments) :
                          LET v0 == segments[k][1]
                              v1 == segments[k][2]
                              v2 == Moved(v1)
                              v3 == Moved(v0)
                          IN /\ side.triangles[2 * k - 1].points = <<v0, v1, v2>>
                             /\ side.triangles[2 * k].points = <<v0, v2, v3>>

\* a shape of two faces and two cycles, of one and of three segments, has
\* been swept along a slanted path
C18_Witness ==
    /\ hcall.op = "sweep_shape"
    /\ hcall.path = <<1, 0, 2>>
    /\ Len(hcall.original.faces) = 2
    /\ hcall.original.faces[1] # hcall.original.faces[2]
    /\ Len(hcall.original.cycles) = 2
    /\ Len(hcall.original.cycles[1].segments) = 1
    /\ Len(hcall.original.cycles[2].segments) = 3
    /\ Len(hfaces) = 6
    /\ Len(hfaces[6].triangles) = 6
    /\ hfaces[5].triangles[2].points = <<PointA, <<2, 0, 2>>, <<1, 0, 2>>>>

(***************************************************************************)
(* Termination of PathApproxParams::points                                 *)
(***************************************************************************)
\* the iterator has just been made, of a boundary of two equal endpoints
EqualEndpoints == pc = "iter" /\ out = <<>> /\ boundary[1] = boundary[2]

\* a step that yields a point moves the index by one lattice unit, toward
\* the end
StepByOne ==
    (pc = "iter" /\ pc' = "iter") =>
        /\ iter.direction = "Positive" => iter'.i = iter.i + One
        /\ iter.direction = "Negative" => iter'.i = iter.i - One
        /\ iter.direction # "Zero"

\* C19: points ends, for every boundary: for equal endpoints the start lies
\* beyond the end and nothing is yielded; otherwise every step moves the
\* index by exactly one lattice unit toward the end, and the iterator is
\* finished after finitely many steps.
C19_PointsTerminate ==
    /\ [](EqualEndpoints => IsFinished(iter))
    /\ [][StepByOne]_vars
    /\ (pc = "iter") ~> (pc = "done")

====
